---- MODULE Spec2Model ----
(***************************************************************************)
(* Model of detect_wrapper.py: one run of the motion-capture wrapper.      *)
(* The run calls the detector, classifies its result (no label files ->    *)
(* cleanup, else per-label routing), and for every label file moves the    *)
(* capture image, attempts a notification, moves the video clips of the    *)
(* same location within tolerance_seconds, and deletes the label file.     *)
(*                                                                         *)
(* File names are sequences of one-character strings, so that the          *)
(* filename pattern and the timestamp parsing are computed on the text of  *)
(* the name as the script computes them.  A directory is the set of the    *)
(* files in it; a file is [stem, ext] as pathlib splits a name.            *)
(***************************************************************************)
EXTENDS Integers, Sequences, FiniteSets, TLC

VARIABLES
    pc,               \* position of the script
    returncode,       \* result.returncode, -1 before the detector returned
    exit_code,        \* -1 while running, else the process exit status
    abort_cause,      \* the uncaught exception that ended the run, or "none"
    branch,           \* "none", "empty" (lines 47-66) or "detection" (72-170)
    image_dir,        \* /tmp/motion/image
    video_dir,        \* /tmp/motion
    output_dir,       \* /home/motion/files
    labels_dir,       \* /tmp/motion_run/labels
    labels_exists,    \* labels_dir.exists()
    images_dir,       \* /tmp/motion_run, the annotated images
    pending,          \* label files the loop of line 72 has still to visit
    label_file,       \* the loop variable of line 72
    location,         \* group 5 of the label's match (line 83)
    image_time,       \* line 84
    matching_videos,  \* line 119, then the clips the loop of line 139 has left
    log,              \* history: the file operations and notification attempts
    fs0               \* history: the directories as the detector left them

vars == <<pc, returncode, exit_code, abort_cause, branch, image_dir, video_dir, output_dir,
          labels_dir, labels_exists, images_dir, pending, label_file, location,
          image_time, matching_videos, log, fs0>>

(***************************************************************************)
(* Bounds of the model: how many files the directories hold at most.       *)
(***************************************************************************)
MaxLabels == 2

MaxImages == 2

MaxVideos == 2

(***************************************************************************)
(* Characters.                                                             *)
(***************************************************************************)
DigitChars == <<"0", "1", "2", "3", "4", "5", "6", "7", "8", "9">>

UpperChars == <<"A", "B", "C", "D", "E", "F", "G", "H", "I", "J", "K", "L", "M",
                "N", "O", "P", "Q", "R", "S", "T", "U", "V", "W", "X", "Y", "Z">>

LowerChars == <<"a", "b", "c", "d", "e", "f", "g", "h", "i", "j", "k", "l", "m",
                "n", "o", "p", "q", "r", "s", "t", "u", "v", "w", "x", "y", "z">>

Range(s) == {s[i] : i \in DOMAIN s}

IsDigit(c) == c \in Range(DigitChars)

IsLetter(c) == c \in Range(UpperChars) \cup Range(LowerChars)

DigitVal(c) == CHOOSE d \in 0..9 : DigitChars[d + 1] = c

\* int() of a run of decimal digits
RECURSIVE IntOf(_)
IntOf(s) ==
    IF s = <<>> THEN 0
    ELSE 10 * IntOf(SubSeq(s, 1, Len(s) - 1)) + DigitVal(s[Len(s)])

LowerChar(c) ==
    IF c \in Range(UpperChars)
    THEN LowerChars[CHOOSE i \in 1..26 : UpperChars[i] = c]
    ELSE c

\* str.lower()
lower(s) == [i \in DOMAIN s |-> LowerChar(s[i])]

(***************************************************************************)
(* filename_pattern, line 69, applied with re.match: the pattern is        *)
(* anchored at the start of the stem only, and [a-zA-Z]+ is greedy.        *)
(***************************************************************************)
DigitPositions == {1, 2, 4, 5, 7, 8, 9, 10, 12, 13, 15, 16, 18, 19}

filename_pattern(s) ==
    /\ Len(s) >= 21
    /\ \A i \in DigitPositions : IsDigit(s[i])
    /\ s[3] = "-" /\ s[6] = "-"
    /\ s[11] = "_"
    /\ s[14] = "." /\ s[17] = "."
    /\ s[20] = "_"
    /\ IsLetter(s[21])

LocationEnd(s) ==
    CHOOSE k \in 21..Len(s) :
        /\ \A i \in 21..k : IsLetter(s[i])
        /\ (k = Len(s) \/ ~IsLetter(s[k + 1]))

\* match.groups(): date is kept as its three numbers' digits
groups(s) ==
    [month  |-> SubSeq(s, 1, 2),
     day    |-> SubSeq(s, 4, 5),
     year   |-> SubSeq(s, 7, 10),
     hour   |-> SubSeq(s, 12, 13),
     minute |-> SubSeq(s, 15, 16),
     second |-> SubSeq(s, 18, 19),
     location |-> SubSeq(s, 21, LocationEnd(s))]

(***************************************************************************)
(* datetime.strptime(..., "%m-%d-%Y %H:%M:%S") and datetime subtraction.   *)
(***************************************************************************)
IsLeap(y) == (y % 4 = 0) /\ ((y % 100 # 0) \/ (y % 400 = 0))

DaysInMonth(y, m) ==
    IF m = 2 THEN (IF IsLeap(y) THEN 29 ELSE 28)
    ELSE IF m \in {4, 6, 9, 11} THEN 30 ELSE 31

RECURSIVE DaysBeforeMonth(_, _)
DaysBeforeMonth(y, m) ==
    IF m = 1 THEN 0 ELSE DaysBeforeMonth(y, m - 1) + DaysInMonth(y, m - 1)

DaysBeforeYear(y) ==
    (y - 1) * 365 + ((y - 1) \div 4) - ((y - 1) \div 100) + ((y - 1) \div 400)

\* strptime raises ValueError exactly when this is false
strptime_ok(g) ==
    LET mo == IntOf(g.month)
        d  == IntOf(g.day)
        y  == IntOf(g.year)
    IN  /\ mo \in 1..12
        /\ y >= 1
        /\ d >= 1 /\ d <= DaysInMonth(y, mo)
        /\ IntOf(g.hour) <= 23
        /\ IntOf(g.minute) <= 59
        /\ IntOf(g.second) <= 59

\* the datetime: its proleptic ordinal day and the second of that day
strptime(g) ==
    LET mo == IntOf(g.month)
        d  == IntOf(g.day)
        y  == IntOf(g.year)
    IN  [ord |-> DaysBeforeYear(y) + DaysBeforeMonth(y, mo) + d,
         sec |-> IntOf(g.hour) * 3600 + IntOf(g.minute) * 60 + IntOf(g.second)]

\* (a - b).total_seconds()
total_seconds(a, b) == (a.ord - b.ord) * 86400 + (a.sec - b.sec)

abs(x) == IF x < 0 THEN -x ELSE x

NoTime == [ord |-> 0, sec |-> 0]

(***************************************************************************)
(* The names the model draws its files from.  CaptureStem writes a name    *)
(* the way the capture system does, MM-DD-YYYY_HH.MM.SS_Location.          *)
(***************************************************************************)
TwoDigits(n) == <<DigitChars[(n \div 10) + 1], DigitChars[(n % 10) + 1]>>

FourDigits(n) == TwoDigits(n \div 100) \o TwoDigits(n % 100)

CaptureStem(r) ==
    TwoDigits(r.mo) \o <<"-">> \o TwoDigits(r.d) \o <<"-">> \o FourDigits(r.y)
    \o <<"_">> \o TwoDigits(r.h) \o <<".">> \o TwoDigits(r.mi) \o <<".">>
    \o TwoDigits(r.s) \o <<"_">> \o r.loc

Capture(mo, d, y, h, mi, s, loc) ==
    [mo |-> mo, d |-> d, y |-> y, h |-> h, mi |-> mi, s |-> s, loc |-> loc]

File(stem, ext) == [stem |-> stem, ext |-> ext]

NoFile == File(<<>>, "")

\* The labels: two of one event a minute apart, just after midnight of a
\* leap day; one followed by a counter; three unusable ones.
CaptureA == Capture(2, 29, 2024, 0, 0, 20, <<"Y", "d">>)

CaptureB == Capture(2, 29, 2024, 0, 1, 20, <<"y", "d">>)

CaptureMonth13 == Capture(13, 15, 2024, 0, 0, 20, <<"Y", "d">>)

CaptureHour25 == Capture(2, 29, 2024, 25, 0, 20, <<"Y", "d">>)

StemA == CaptureStem(CaptureA)

StemB == CaptureStem(CaptureB)

StemTail == StemA \o <<"-", "2">>

StemNoPattern == <<"0", "2", "-", "2", "9", "-", "2", "0", "2", "4", "-",
                   "0", "0", ".", "0", "0", ".", "2", "0", "_", "Y", "d">>

StemMonth13 == CaptureStem(CaptureMonth13)

StemHour25 == CaptureStem(CaptureHour25)

LabelUniverse ==
    {File(s, "txt") : s \in {StemA, StemB, StemTail, StemNoPattern,
                             StemMonth13, StemHour25}}
    \cup {File(StemA, "cache")}

ImageUniverse ==
    {File(s, "webp") : s \in {StemA, StemNoPattern}} \cup {File(StemA, "jpg")}

\* The clips: 40 and 41 seconds on either side of CaptureA (the earlier ones
\* on the day before), in every spelling of its location; one at CaptureA's
\* time elsewhere; one whose date does not exist; one with no pattern.
CapturePlus40 == Capture(2, 29, 2024, 0, 1, 0, <<"Y", "d">>)

CapturePlus41 == Capture(2, 29, 2024, 0, 1, 1, <<"Y", "D">>)

CaptureMinus40 == Capture(2, 28, 2024, 23, 59, 40, <<"y", "D">>)

CaptureMinus41 == Capture(2, 28, 2024, 23, 59, 39, <<"Y", "d">>)

CaptureElsewhere == Capture(2, 29, 2024, 0, 0, 20, <<"G", "t">>)

CaptureNoDate == Capture(2, 30, 2024, 0, 0, 20, <<"Y", "d">>)

ClipPlus40 == File(CaptureStem(CapturePlus40), "mkv")

ClipPlus41 == File(CaptureStem(CapturePlus41), "mkv")

ClipMinus40 == File(CaptureStem(CaptureMinus40), "mkv")

ClipMinus41 == File(CaptureStem(CaptureMinus41), "mkv")

ClipElsewhere == File(CaptureStem(CaptureElsewhere), "mkv")

ClipNoDate == File(CaptureStem(CaptureNoDate), "mkv")

ClipNoPattern == File(<<"c", "l", "i", "p">>, "mkv")

VideoUniverse ==
    {ClipPlus40, ClipPlus41, ClipMinus40, ClipMinus41, ClipElsewhere,
     ClipNoDate, ClipNoPattern}

\* a file an earlier run routed
OldOutput == {File(CaptureStem(Capture(2, 28, 2024, 9, 0, 0, <<"Y", "d">>)), "webp")}

AtMost(S, n) == {T \in SUBSET S : Cardinality(T) <= n}

(***************************************************************************)
(* pathlib and shutil                                                      *)
(***************************************************************************)
\* dir.glob("*.<ext>")
glob(dir, ext) == {f \in dir : f.ext = ext}

\* images_dir.glob("*.*"): every entry with a dot in its name
glob_any(dir) == {f \in dir : f.ext # ""}

Entry(op, file) == [op |-> op, label |-> label_file, file |-> file]

tolerance_seconds == 40

(***************************************************************************)
(* Lines 118-136: is this clip appended to matching_videos?                *)
(***************************************************************************)
within_tolerance_exclusive(time_diff) == time_diff < tolerance_seconds

within_tolerance(time_diff) == time_diff <= tolerance_seconds

video_matches(video, loc, itime) ==
    /\ filename_pattern(video.stem)
    /\ lower(groups(video.stem).location) = lower(loc)
    /\ strptime_ok(groups(video.stem))
    /\ within_tolerance(abs(total_seconds(strptime(groups(video.stem)), itime)))

scan_videos(dir, loc, itime) ==
    {video \in glob(dir, "mkv") : video_matches(video, loc, itime)}

(***************************************************************************)
(* The state before the script starts.                                     *)
(***************************************************************************)
Init ==
    /\ pc = "start"
    /\ returncode = -1
    /\ exit_code = -1
    /\ abort_cause = "none"
    /\ branch = "none"
    /\ image_dir \in AtMost(ImageUniverse, MaxImages)
    /\ video_dir \in AtMost(VideoUniverse, MaxVideos)
    /\ output_dir = OldOutput
    /\ labels_dir = {}
    /\ labels_exists = FALSE
    /\ images_dir = {}
    /\ pending = {}
    /\ label_file = NoFile
    /\ location = <<>>
    /\ image_time = NoTime
    /\ matching_videos = {}
    /\ log = <<>>
    /\ fs0 = [image_dir |-> {}, video_dir |-> {}, output_dir |-> {},
              labels_dir |-> {}, images_dir |-> {}]

Dirs == <<image_dir, video_dir, output_dir, labels_dir, labels_exists, images_dir>>

LoopVars == <<pending, label_file, location, image_time, matching_videos>>

(***************************************************************************)
(* Lines 25-41.  The detector is a black box: it leaves any label files    *)
(* (or no labels directory), an annotated copy of every image it read,     *)
(* and returns any status.                                                 *)
(***************************************************************************)
DetectorFailed_signal_only(rc) == rc < 0

DetectorFailed(rc) == rc # 0

RunDetector ==
    /\ pc = "start"
    /\ \E rc \in {0, 1}, labels \in AtMost(LabelUniverse, MaxLabels),
          exists \in BOOLEAN :
        /\ (~exists => labels = {})
        /\ returncode' = rc
        /\ labels_dir' = labels
        /\ labels_exists' = exists
        /\ images_dir' = glob(image_dir, "webp")
        /\ fs0' = [image_dir |-> image_dir, video_dir |-> video_dir,
                   output_dir |-> output_dir, labels_dir |-> labels,
                   images_dir |-> glob(image_dir, "webp")]
        /\ IF DetectorFailed(rc)
           THEN pc' = "exited" /\ exit_code' = 1
           ELSE pc' = "classify" /\ exit_code' = exit_code
    /\ UNCHANGED <<abort_cause, branch, image_dir, video_dir, output_dir,
                   LoopVars, log>>

(***************************************************************************)
(* Line 47: which branch the run takes.                                    *)
(***************************************************************************)
no_detections_empty_dir == ~labels_exists \/ labels_dir = {}

no_detections == ~labels_exists \/ glob(labels_dir, "txt") = {}

Classify ==
    /\ pc = "classify"
    /\ IF no_detections
       THEN /\ branch' = "empty"
            /\ pc' = "cleanup_images"
            /\ pending' = pending
       ELSE /\ branch' = "detection"
            /\ pc' = "loop"
            /\ pending' = glob(labels_dir, "txt")
    /\ UNCHANGED <<returncode, exit_code, abort_cause, Dirs, label_file, location,
                   image_time, matching_videos, log, fs0>>

(***************************************************************************)
(* Lines 48-66: the cleanup of a run without detections.                   *)
(***************************************************************************)
CleanupImage ==
    /\ pc = "cleanup_images"
    /\ \E image \in glob(image_dir, "webp") :
        /\ image_dir' = image_dir \ {image}
        /\ log' = Append(log, Entry("unlink_image", image))
    /\ UNCHANGED <<pc, exit_code, abort_cause, returncode, branch, video_dir, output_dir,
                   labels_dir, labels_exists, images_dir, LoopVars, fs0>>

CleanupImagesDone ==
    /\ pc = "cleanup_images"
    /\ glob(image_dir, "webp") = {}
    /\ pc' = "cleanup_videos"
    /\ UNCHANGED <<exit_code, abort_cause, returncode, branch, Dirs, LoopVars, log, fs0>>

CleanupVideo ==
    /\ pc = "cleanup_videos"
    /\ \E video \in glob(video_dir, "mkv") :
        /\ video_dir' = video_dir \ {video}
        /\ log' = Append(log, Entry("unlink_video", video))
    /\ UNCHANGED <<pc, exit_code, abort_cause, returncode, branch, image_dir, output_dir,
                   labels_dir, labels_exists, images_dir, LoopVars, fs0>>

\* the loop of lines 58-60 runs here: it finds what line 47 found, nothing
CleanupVideosDone ==
    /\ pc = "cleanup_videos"
    /\ glob(video_dir, "mkv") = {}
    /\ labels_dir' = labels_dir \ glob(labels_dir, "txt")
    /\ pc' = "cleanup_annotated"
    /\ UNCHANGED <<exit_code, abort_cause, returncode, branch, image_dir, video_dir,
                   output_dir, labels_exists, images_dir, LoopVars, log, fs0>>

CleanupAnnotated ==
    /\ pc = "cleanup_annotated"
    /\ \E annotated_image \in glob_any(images_dir) :
        /\ images_dir' = images_dir \ {annotated_image}
        /\ log' = Append(log, Entry("unlink_annotated", annotated_image))
    /\ UNCHANGED <<pc, exit_code, abort_cause, returncode, branch, image_dir, video_dir,
                   output_dir, labels_dir, labels_exists, LoopVars, fs0>>

CleanupExit ==
    /\ pc = "cleanup_annotated"
    /\ glob_any(images_dir) = {}
    /\ pc' = "exited"
    /\ exit_code' = 0
    /\ UNCHANGED <<abort_cause, returncode, branch, Dirs, LoopVars, log, fs0>>

(***************************************************************************)
(* Lines 72-170: the loop over the label files.  The order of a glob is    *)
(* the directory's, so the loop takes the pending labels in any order.     *)
(***************************************************************************)
NextLabel ==
    /\ pc = "loop"
    /\ \E f \in pending :
        /\ label_file' = f
        /\ pending' = pending \ {f}
    /\ pc' = "parse"
    /\ UNCHANGED <<exit_code, abort_cause, returncode, branch, Dirs, location, image_time,
                   matching_videos, log, fs0>>

\* the loop is exhausted and the script runs off its end
LoopEnd ==
    /\ pc = "loop"
    /\ pending = {}
    /\ pc' = "exited"
    /\ exit_code' = 0
    /\ UNCHANGED <<abort_cause, returncode, branch, Dirs, LoopVars, log, fs0>>

base_name == label_file.stem

\* a skip that deletes the image of the stem too
SkipMalformed_unlinks_image ==
    /\ pc = "parse"
    /\ ~filename_pattern(base_name)
    /\ labels_dir' = labels_dir \ {label_file}
    /\ image_dir' = image_dir \ {File(base_name, "webp")}
    /\ log' = Append(log, Entry("unlink_label", label_file))
    /\ pc' = "loop"
    /\ UNCHANGED <<exit_code, abort_cause, returncode, branch, video_dir,
                   output_dir, labels_exists, images_dir, LoopVars, fs0>>

\* lines 76-81
SkipMalformed ==
    /\ pc = "parse"
    /\ ~filename_pattern(base_name)
    /\ labels_dir' = labels_dir \ {label_file}
    /\ log' = Append(log, Entry("unlink_label", label_file))
    /\ pc' = "loop"
    /\ UNCHANGED <<exit_code, abort_cause, returncode, branch, image_dir, video_dir,
                   output_dir, labels_exists, images_dir, LoopVars, fs0>>

\* lines 83-84, strptime raising: nothing catches the ValueError
ParseRaises ==
    /\ pc = "parse"
    /\ filename_pattern(base_name)
    /\ ~strptime_ok(groups(base_name))
    /\ pc' = "aborted"
    /\ exit_code' = 1
    /\ abort_cause' = "ValueError"
    /\ UNCHANGED <<returncode, branch, Dirs, LoopVars, log, fs0>>

\* a parse that deletes the label file at once
ParseLabel_unlinks_first ==
    /\ pc = "parse"
    /\ filename_pattern(base_name)
    /\ strptime_ok(groups(base_name))
    /\ location' = groups(base_name).location
    /\ image_time' = strptime(groups(base_name))
    /\ labels_dir' = labels_dir \ {label_file}
    /\ pc' = "image"
    /\ UNCHANGED <<exit_code, abort_cause, returncode, branch, image_dir,
                   video_dir, output_dir, labels_exists, images_dir, pending,
                   label_file, matching_videos, log, fs0>>

\* lines 83-84
ParseLabel ==
    /\ pc = "parse"
    /\ filename_pattern(base_name)
    /\ strptime_ok(groups(base_name))
    /\ location' = groups(base_name).location
    /\ image_time' = strptime(groups(base_name))
    /\ pc' = "image"
    /\ UNCHANGED <<exit_code, abort_cause, returncode, branch, Dirs, pending, label_file,
                   matching_videos, log, fs0>>

original_image == File(base_name, "webp")

\* lines 94-99
MoveImage ==
    /\ pc = "image"
    /\ original_image \in image_dir
    /\ image_dir' = image_dir \ {original_image}
    /\ output_dir' = output_dir \cup {original_image}
    /\ log' = Append(log, Entry("move_image", original_image))
    /\ pc' = "notify"
    /\ UNCHANGED <<exit_code, abort_cause, returncode, branch, video_dir, labels_dir,
                   labels_exists, images_dir, LoopVars, fs0>>

\* a missing image that still goes on to the notification
ImageNotFound_notifies ==
    /\ pc = "image"
    /\ original_image \notin image_dir
    /\ pc' = "notify"
    /\ UNCHANGED <<exit_code, abort_cause, returncode, branch, Dirs, LoopVars,
                   log, fs0>>

\* lines 95, 115-116
ImageNotFound ==
    /\ pc = "image"
    /\ original_image \notin image_dir
    /\ pc' = "scan"
    /\ UNCHANGED <<exit_code, abort_cause, returncode, branch, Dirs, LoopVars, log, fs0>>

(***************************************************************************)
(* Lines 101-114.  curl ends with status 0 ("sent"), ends with another     *)
(* status (CalledProcessError, caught at line 113), or cannot be started   *)
(* (subprocess.run raises an OSError, which line 113 does not catch).      *)
(* The entry records whether the attached path was there.                  *)
(***************************************************************************)
NotifyOutcomes == {"sent", "CalledProcessError", "OSError"}

caught(outcome) == outcome = "CalledProcessError"

dest_image_path == original_image

Notify ==
    /\ pc = "notify"
    /\ \E outcome \in NotifyOutcomes :
        /\ log' = Append(log, [op |-> "notify", label |-> label_file,
                               file |-> dest_image_path, outcome |-> outcome,
                               attached |-> dest_image_path \in output_dir])
        /\ IF outcome = "sent" \/ caught(outcome)
           THEN pc' = "scan" /\ UNCHANGED <<exit_code, abort_cause>>
           ELSE pc' = "aborted" /\ exit_code' = 1 /\ abort_cause' = outcome
    /\ UNCHANGED <<returncode, branch, Dirs, LoopVars, fs0>>

\* a scan that goes on to the next label when no clip matched
ScanVideos_continue ==
    /\ pc = "scan"
    /\ matching_videos' = scan_videos(video_dir, location, image_time)
    /\ pc' = IF matching_videos' # {} THEN "move_videos" ELSE "loop"
    /\ UNCHANGED <<exit_code, abort_cause, returncode, branch, Dirs, pending,
                   label_file, location, image_time, log, fs0>>

\* lines 119-138, 142-145
ScanVideos ==
    /\ pc = "scan"
    /\ matching_videos' = scan_videos(video_dir, location, image_time)
    /\ pc' = IF matching_videos' # {} THEN "move_videos" ELSE "annotated"
    /\ UNCHANGED <<exit_code, abort_cause, returncode, branch, Dirs, pending, label_file,
                   location, image_time, log, fs0>>

after_move_first_only(rest) == "annotated"

\* lines 139-141, one turn of the loop
after_move(rest) == IF rest = {} THEN "annotated" ELSE "move_videos"

MoveVideo ==
    /\ pc = "move_videos"
    /\ \E video \in matching_videos :
        /\ video_dir' = video_dir \ {video}
        /\ output_dir' = output_dir \cup {video}
        /\ matching_videos' = matching_videos \ {video}
        /\ log' = Append(log, Entry("move_video", video))
        /\ pc' = after_move(matching_videos \ {video})
    /\ UNCHANGED <<exit_code, abort_cause, returncode, branch, image_dir, labels_dir,
                   labels_exists, images_dir, pending, label_file, location,
                   image_time, fs0>>

\* lines 148-166: the annotated image is looked up and left where it is
annotated_files ==
    {f \in images_dir : f.stem = base_name /\ f.ext \in {"webp", "jpg", "jpeg", "png"}}

CheckAnnotated ==
    /\ pc = "annotated"
    /\ log' = Append(log, Entry(IF annotated_files # {} THEN "annotated_retained"
                                ELSE "annotated_not_found", NoFile))
    /\ pc' = "unlink"
    /\ UNCHANGED <<exit_code, abort_cause, returncode, branch, Dirs, LoopVars, fs0>>

\* lines 168-170
DeleteLabel ==
    /\ pc = "unlink"
    /\ labels_dir' = labels_dir \ {label_file}
    /\ log' = Append(log, Entry("unlink_label", label_file))
    /\ pc' = "loop"
    /\ UNCHANGED <<exit_code, abort_cause, returncode, branch, image_dir, video_dir,
                   output_dir, labels_exists, images_dir, LoopVars, fs0>>

Next ==
    \/ RunDetector
    \/ Classify
    \/ CleanupImage
    \/ CleanupImagesDone
    \/ CleanupVideo
    \/ CleanupVideosDone
    \/ CleanupAnnotated
    \/ CleanupExit
    \/ NextLabel
    \/ LoopEnd
    \/ SkipMalformed
    \/ ParseRaises
    \/ ParseLabel
    \/ MoveImage
    \/ ImageNotFound
    \/ Notify
    \/ ScanVideos
    \/ MoveVideo
    \/ CheckAnnotated
    \/ DeleteLabel

Spec == Init /\ [][Next]_vars

(***************************************************************************)
(* The run killed from outside between two steps (a crash, a power cut).   *)
(***************************************************************************)
Running == pc \notin {"exited", "aborted", "killed"}

Interrupt ==
    /\ Running
    /\ branch = "detection"
    /\ pc' = "killed"
    /\ UNCHANGED <<exit_code, abort_cause, returncode, branch, Dirs, LoopVars, log, fs0>>

NextCrash == Next \/ Interrupt

SpecCrash == Init /\ [][NextCrash]_vars

(***************************************************************************)
(* What the properties mean by a Capture Filename, its location tag and    *)
(* its timestamp.  These are stated on the fields a name was written       *)
(* from, not on the script's parsing of the text.  Every capture of the    *)
(* model is dated 2024, a leap year.                                       *)
(***************************************************************************)
KnownCaptures ==
    {CaptureA, CaptureB, CaptureMonth13, CaptureHour25, CapturePlus40,
     CapturePlus41, CaptureMinus40, CaptureMinus41, CaptureElsewhere,
     CaptureNoDate}

MonthLength2024 == <<31, 29, 31, 30, 31, 30, 31, 31, 30, 31, 30, 31>>

RealCapture(r) ==
    /\ r.y = 2024
    /\ r.mo \in 1..12
    /\ r.d \in 1..MonthLength2024[r.mo]
    /\ r.h \in 0..23
    /\ r.mi \in 0..59
    /\ r.s \in 0..59
    /\ r.loc # <<>>
    /\ \A i \in DOMAIN r.loc : IsLetter(r.loc[i])

RECURSIVE DayOfYear2024(_, _)
DayOfYear2024(mo, d) ==
    IF mo = 1 THEN d ELSE MonthLength2024[mo - 1] + DayOfYear2024(mo - 1, d)

\* seconds since the start of 2024
Timestamp(r) ==
    ((DayOfYear2024(r.mo, r.d) - 1) * 24 + r.h) * 3600 + r.mi * 60 + r.s

SameLetter(a, b) ==
    a = b \/ \E k \in 1..26 : {a, b} = {UpperChars[k], LowerChars[k]}

SameLocation(a, b) ==
    Len(a) = Len(b) /\ \A i \in DOMAIN a : SameLetter(a[i], b[i])

RealCaptures == {r \in KnownCaptures : RealCapture(r)}

\* the names that are Capture Filenames
CaptureFilenames == {CaptureStem(r) : r \in RealCaptures}

IsCaptureFilename(stem) == stem \in CaptureFilenames

\* the pairs <<clip, label>> of Capture Filenames with the same location,
\* ignoring case, and timestamps at most 40 seconds apart
Window ==
    {<<CaptureStem(v), CaptureStem(l)>> : <<v, l>> \in
        {p \in RealCaptures \X RealCaptures :
            /\ SameLocation(p[1].loc, p[2].loc)
            /\ Timestamp(p[1]) - Timestamp(p[2]) \in -40..40}}

\* clip v is in the 40-second same-location window of label l
InWindow(v, l) == v.ext = "mkv" /\ <<v.stem, l.stem>> \in Window

LogIndex == DOMAIN log

Ops(op) == {i \in LogIndex : log[i].op = op}

(***************************************************************************)
(* C1.  In the video scan done for a well-formed label, a clip of the      *)
(* video directory whose name is a Capture Filename is selected if and     *)
(* only if its location equals the label's ignoring case and its           *)
(* timestamp is at most 40 seconds from the label's, before or after.      *)
(***************************************************************************)
C1_ScanSelectsWindow ==
    [][(pc = "scan" /\ pc' \in {"move_videos", "annotated"}
        /\ IsCaptureFilename(label_file.stem))
       => \A v \in glob(video_dir, "mkv") :
            IsCaptureFilename(v.stem)
            => (v \in matching_videos' <=> <<v.stem, label_file.stem>> \in Window)]_vars

\* the scan for CaptureA took the clip 40 s before, on the day before and in
\* another spelling, and left the clip 41 s after
C1_Witness ==
    /\ pc = "move_videos"
    /\ label_file = File(StemA, "txt")
    /\ ClipMinus40 \in matching_videos
    /\ ClipPlus41 \in video_dir
    /\ ClipPlus41 \notin matching_videos

(***************************************************************************)
(* C2.  When the detector succeeds and the label directory is absent or    *)
(* holds no .txt file, the run takes the cleanup path: at its end every    *)
(* .webp image and every .mkv clip is deleted, nothing was moved to the    *)
(* output directory, no notification was attempted, no label was           *)
(* processed, and the exit code is 0.                                      *)
(***************************************************************************)
CleanupOps == {"unlink_image", "unlink_video", "unlink_annotated"}

C2_EmptyResultCleanup ==
    (returncode = 0 /\ pc # "classify"
     /\ (~labels_exists \/ glob(fs0.labels_dir, "txt") = {}))
    => /\ branch = "empty"
       /\ pc # "aborted"
       /\ output_dir = fs0.output_dir
       /\ label_file = NoFile
       /\ \A i \in LogIndex : log[i].op \in CleanupOps
       /\ (pc = "exited"
           => /\ exit_code = 0
              /\ glob(image_dir, "webp") = {}
              /\ glob(video_dir, "mkv") = {})

\* a finished cleanup that had an image and a clip to delete, with a labels
\* directory that exists and holds a file that is no label
C2_Witness ==
    /\ pc = "exited"
    /\ branch = "empty"
    /\ labels_exists
    /\ File(StemA, "cache") \in labels_dir
    /\ glob(fs0.image_dir, "webp") # {}
    /\ glob(fs0.video_dir, "mkv") # {}
    /\ File(StemA, "jpg") \in image_dir

(***************************************************************************)
(* C9.  When the detector returns a non-zero status the run ends with      *)
(* exit code 1 before classification: no file is moved or deleted and no   *)
(* notification is attempted, label files present or not.                  *)
(***************************************************************************)
C9_DetectorFailureAborts ==
    returncode \notin {-1, 0}
    => /\ pc = "exited"
       /\ exit_code = 1
       /\ branch = "none"
       /\ log = <<>>
       /\ image_dir = fs0.image_dir
       /\ video_dir = fs0.video_dir
       /\ output_dir = fs0.output_dir
       /\ labels_dir = fs0.labels_dir
       /\ images_dir = fs0.images_dir

C9_Witness ==
    /\ returncode = 1
    /\ pc = "exited"
    /\ glob(labels_dir, "txt") # {}
    /\ glob(image_dir, "webp") # {}
    /\ glob(video_dir, "mkv") # {}

(***************************************************************************)
(* C3.  When a detection-state run over well-formed label files finishes   *)
(* normally: the capture image of every label that had one is in the       *)
(* output directory; a clip is in the output directory if and only if it   *)
(* was in the window of at least one label, and it was moved once; every   *)
(* other clip is still in the video directory.                             *)
(***************************************************************************)
Labels0 == glob(fs0.labels_dir, "txt")

FinishedNormally == pc = "exited" /\ branch = "detection" /\ exit_code = 0

C3_RoutingIsExact ==
    (FinishedNormally /\ \A l \in Labels0 : IsCaptureFilename(l.stem))
    => /\ \A l \in Labels0 :
            File(l.stem, "webp") \in fs0.image_dir
            => /\ File(l.stem, "webp") \in output_dir
               /\ File(l.stem, "webp") \notin image_dir
       /\ \A v \in fs0.video_dir :
            /\ v \in output_dir <=> \E l \in Labels0 : InWindow(v, l)
            /\ v \in video_dir <=> ~\E l \in Labels0 : InWindow(v, l)
            /\ Cardinality({i \in Ops("move_video") : log[i].file = v}) <= 1
       /\ output_dir \subseteq fs0.output_dir \cup fs0.image_dir \cup fs0.video_dir
       /\ fs0.output_dir \subseteq output_dir

\* both labels of the event were processed; the clip in both their windows
\* and the image are in the output directory, the clip 41 s before is not
C3_Witness ==
    /\ FinishedNormally
    /\ Labels0 = {File(StemA, "txt"), File(StemB, "txt")}
    /\ ClipPlus40 \in output_dir
    /\ ClipMinus41 \in video_dir
    /\ File(StemA, "webp") \in output_dir

(***************************************************************************)
(* C4.  In the detection state the label file is deleted as the last step  *)
(* of processing its label: no operation of a label follows the deletion   *)
(* of its file, and every label whose processing has ended has its file    *)
(* deleted, whether or not its image existed, a clip matched or an         *)
(* annotated image was found.  When the run finishes no label file is      *)
(* left.                                                                   *)
(***************************************************************************)
C4_LabelDeletedLast ==
    /\ \A i \in Ops("unlink_label") : \A j \in LogIndex :
            j > i => log[j].label # log[i].label
    /\ branch = "detection"
       => \A l \in Labels0 :
            (l \notin pending /\ (l # label_file \/ pc = "loop"))
            => /\ l \notin labels_dir
               /\ \E i \in Ops("unlink_label") : log[i].label = l
    /\ (pc = "exited" /\ branch = "detection") => glob(labels_dir, "txt") = {}

\* a finished run: label A had its image moved, a notification that failed,
\* a clip moved and an annotated image; label B had none of them
C4_Witness ==
    /\ FinishedNormally
    /\ glob(labels_dir, "txt") = {}
    /\ \E i \in Ops("notify") :
            log[i].label = File(StemA, "txt") /\ log[i].outcome = "CalledProcessError"
    /\ \E i \in Ops("move_video") : log[i].label = File(StemA, "txt")
    /\ \E i \in Ops("annotated_retained") : log[i].label = File(StemA, "txt")
    /\ \E i \in Ops("annotated_not_found") : log[i].label = File(StemB, "txt")
    /\ ~\E i \in Ops("move_video") \cup Ops("move_image") :
            log[i].label = File(StemB, "txt")
    /\ \E i \in Ops("unlink_label") : log[i].label = File(StemB, "txt")

(***************************************************************************)
(* C7.  Processing a label file whose stem fails the pattern only deletes  *)
(* that label file: no image and no clip is moved, no clip is scanned, no  *)
(* notification is attempted, no annotated image is touched.               *)
(***************************************************************************)
C7_MalformedOnlyDeletesLabel ==
    [][(pc = "parse" /\ ~filename_pattern(label_file.stem))
       => /\ pc' = "loop"
          /\ label_file \in labels_dir
          /\ labels_dir' = labels_dir \ {label_file}
          /\ image_dir' = image_dir
          /\ video_dir' = video_dir
          /\ output_dir' = output_dir
          /\ images_dir' = images_dir
          /\ matching_videos' = matching_videos
          /\ log' = Append(log, [op |-> "unlink_label", label |-> label_file,
                                 file |-> label_file])]_vars

\* the malformed label is gone; the image of its stem and a clip of its
\* location are where they were
C7_Witness ==
    /\ pc = "loop"
    /\ label_file = File(StemNoPattern, "txt")
    /\ label_file \notin labels_dir
    /\ File(StemNoPattern, "webp") \in image_dir
    /\ ClipPlus40 \in video_dir

(***************************************************************************)
(* C8.  A notification is attempted only after a successful image move:    *)
(* every attempt follows the move of its label's image and attaches the    *)
(* moved image's path in the output directory; a label whose image was     *)
(* moved gets exactly one attempt; a label without image, a malformed      *)
(* label, the cleanup path and a failed detector get none.                 *)
(***************************************************************************)
NotifiesOf(l) == {i \in Ops("notify") : log[i].label = l}

MovesOf(l) == {i \in Ops("move_image") : log[i].label = l}

C8_NotifyOnlyAfterImageMove ==
    /\ \A j \in Ops("notify") :
        /\ \E i \in MovesOf(log[j].label) :
                i < j /\ log[i].file = File(log[j].label.stem, "webp")
        /\ log[j].file = File(log[j].label.stem, "webp")
        /\ log[j].attached
        /\ File(log[j].label.stem, "webp") \in fs0.image_dir
        /\ filename_pattern(log[j].label.stem)
        /\ strptime_ok(groups(log[j].label.stem))
        /\ branch = "detection"
    /\ \A l \in Labels0 :
        /\ Cardinality(NotifiesOf(l)) <= 1
        /\ (MovesOf(l) # {} /\ ~(pc = "notify" /\ label_file = l))
           => Cardinality(NotifiesOf(l)) = 1

\* label A's image was moved and notified, label B had no image and was
\* processed without a notification
C8_Witness ==
    /\ FinishedNormally
    /\ NotifiesOf(File(StemA, "txt")) # {}
    /\ File(StemA, "webp") \in output_dir
    /\ NotifiesOf(File(StemB, "txt")) = {}
    /\ \E i \in Ops("unlink_label") : log[i].label = File(StemB, "txt")

(***************************************************************************)
(* C5.  A failing notification call, whether curl returns a failure        *)
(* status or cannot be started, never aborts the run: the run is never     *)
(* ended by the notification attempt of a label, whose file would then     *)
(* stay undeleted and whose clips unmoved.                                 *)
(***************************************************************************)
LastOp == log[Len(log)]

C5_NotifyFailureNeverAborts ==
    (log # <<>> /\ LastOp.op = "notify" /\ LastOp.outcome # "sent")
    => /\ pc # "aborted"
       /\ (pc = "exited" => LastOp.label \notin labels_dir)

(***************************************************************************)
(* C6.  A label file whose stem is not a valid Capture Filename, because   *)
(* it fails the pattern or because its digits are no real date and time,   *)
(* never aborts the run: once the loop has left it, it is deleted and      *)
(* nothing was moved for it.                                               *)
(***************************************************************************)
Unusable(l) ==
    \/ ~filename_pattern(l.stem)
    \/ \E r \in KnownCaptures : CaptureStem(r) = l.stem /\ ~RealCapture(r)

C6_MalformedLabelPurged ==
    \A l \in Labels0 :
        Unusable(l)
        => /\ ~(pc = "aborted" /\ label_file = l)
           /\ (branch = "detection" /\ l \notin pending /\ l # label_file)
              => l \notin labels_dir
           /\ \A i \in Ops("move_image") \cup Ops("move_video") : log[i].label # l

(***************************************************************************)
(* C10.  Label file and clips under interruption.  A run killed between    *)
(* two file operations leaves an entry partially routed, but a label       *)
(* file that is gone never leaves a clip of its window behind: the label   *)
(* is deleted only after the clips of its scan were moved.                 *)
(***************************************************************************)
C10_NoClipLeftOnceLabelDeleted ==
    \A l \in Labels0 :
        (IsCaptureFilename(l.stem) /\ l \notin labels_dir)
        => ~\E v \in video_dir : InWindow(v, l)

\* killed in the middle of label A: its image and one of its clips are in
\* the output directory, its other clip and its label file are not
C10_Witness ==
    /\ pc = "killed"
    /\ label_file = File(StemA, "txt")
    /\ label_file \in labels_dir
    /\ File(StemA, "webp") \in output_dir
    /\ ClipPlus40 \in output_dir
    /\ ClipMinus40 \in video_dir

\* C10 as the specification words it, at the interruption that follows the
\* deletion of a label file: a clip of that label's window is still in the
\* video directory, not moved
C10_LabelDeletedClipNotMoved ==
    (pc = "killed" /\ log # <<>> /\ LastOp.op = "unlink_label"
     /\ \E v \in fs0.video_dir : InWindow(v, LastOp.label))
    => \E v \in video_dir : InWindow(v, LastOp.label)

====
